---------------------------- MODULE Spec2Model ----------------------------
(***************************************************************************)
(* A model of the two scripts of the repository:                           *)
(*   performance_monitor.py       key loader, fetcher, extractor,          *)
(*                                analyzer, CSV writer, async_main         *)
(*   apply_cloudflare_settings.py the five setting steps and main          *)
(*                                                                         *)
(* Python values are tagged records (field t), Python exceptions are       *)
(* values of tag "exc", and every modelled function returns an outcome     *)
(* [ok, v]: ok = TRUE with the returned value, ok = FALSE with the         *)
(* exception that leaves the function.                                     *)
(***************************************************************************)
EXTENDS Integers, Sequences, FiniteSets, TLC

VARIABLES
    response,    \* extractor harness: the decoded response handed to extract
    extracted,   \* extractor harness: outcome of extract_core_web_vitals
    epc,         \* extractor harness: "idle" | "start" | "done"
    record,      \* analyzer harness: the flat record handed to analyze
    table,       \* analyzer harness: the threshold table, in iteration order
    analysed,    \* analyzer harness: outcome of analyze_performance
    apc,         \* analyzer harness: "idle" | "start" | "done"
    cf_zone,     \* settings script: ZONE_ID has been replaced by a real id
    cf_token,    \* settings script: API_TOKEN has been replaced by a real token
    cf_entry,    \* settings script: what is called, main or one step function
    cf_pc,       \* settings script: the step about to run, or how it ended
    cf_cache_i,  \* settings script: apply_cache_settings' position in CACHE_SETTINGS
    cf_count,    \* settings script: main's success_count
    cf_sent,     \* settings script: HTTP requests sent so far
    cf_result,   \* settings script: result of the last make_api_request
    cf_end,      \* settings script: return value, exit status or uncaught exception
    env_key,     \* monitor: value of GOOGLE_PAGESPEED_API_KEY (None when unset)
    config_file, \* monitor: state of .pagespeed_config.json
    csv_before,  \* monitor: performance_metrics.csv as the run found it
    csv_file,    \* monitor: performance_metrics.csv now
    api_key,     \* monitor: what load_api_key returned
    m_pc,        \* monitor: async_main's position
    m_end,       \* monitor: how async_main ended
    t_pc,        \* monitor: each strategy task's position
    t_answer,    \* monitor: how each task's GET ended
    t_fetched,   \* monitor: what test_page_speed_async gave each task
    t_result,    \* monitor: what run_strategy_test gave for each task
    t_printed,   \* monitor: the summary each task printed
    http_sent,   \* monitor: GETs issued per strategy
    valid_results, \* monitor: async_main's valid_results
    reported,    \* monitor: the reports of the final report, in order
    save_metrics, \* CSV writer harness: the list handed to save_metrics_to_csv
    save_before, \* CSV writer harness: the file before the call
    save_file,   \* CSV writer harness: the file now
    save_out,    \* CSV writer harness: outcome of save_metrics_to_csv
    save_pc      \* CSV writer harness: "idle" | "start" | "done"

extractVars == <<response, extracted, epc>>
analyzeVars == <<record, table, analysed, apc>>
cfVars == <<cf_zone, cf_token, cf_entry, cf_pc, cf_cache_i, cf_count,
            cf_sent, cf_result, cf_end>>
saveVars == <<save_metrics, save_before, save_file, save_out, save_pc>>
runVars == <<env_key, config_file, csv_before, csv_file, api_key, m_pc, m_end,
             t_pc, t_answer, t_fetched, t_result, t_printed, http_sent,
             valid_results, reported>>
vars == <<response, extracted, epc, record, table, analysed, apc,
          cf_zone, cf_token, cf_entry, cf_pc, cf_cache_i, cf_count,
          cf_sent, cf_result, cf_end,
          env_key, config_file, csv_before, csv_file, api_key, m_pc, m_end,
          t_pc, t_answer, t_fetched, t_result, t_printed, http_sent,
          valid_results, reported,
          save_metrics, save_before, save_file, save_out, save_pc>>

---------------------------------------------------------------------------
(* Bounds of the model *)

\* most audit entries a generated response carries
MaxAudits == 1
\* most entries of a generated threshold table
MaxThresholds == 2
\* most metrics a generated flat record carries
MaxRecordMetrics == 2
\* most records of a list handed to the CSV writer on its own
MaxRecords == 2

---------------------------------------------------------------------------
(* Python values *)

PyNone == [t |-> "none"]
\* the number m / 1000^e: e counts the divisions by 1000 applied to it
PyNum(m, e) == [t |-> "num", m |-> m, e |-> e]
PyStr(s) == [t |-> "str", s |-> s]
PyList(items) == [t |-> "list", items |-> items]
PyDict(d) == [t |-> "dict", d |-> d]
PyBool(b) == [t |-> "bool", b |-> b]
PyExc(name) == [t |-> "exc", name |-> name]

Ret(v) == [ok |-> TRUE, v |-> v]
Raise(name) == [ok |-> FALSE, v |-> PyExc(name)]

EmptyMap == [k \in {} |-> PyNone]
EMPTY_DICT == PyDict(EmptyMap)

\* the strings of the model that contain the substring "error"
StrContainsError(s) == s \in {"error", "server error"}

\* Python's  "error" in x
ContainsError(x) ==
    CASE x.t = "dict" -> Ret("error" \in DOMAIN x.d)
      [] x.t = "list" -> Ret(\E i \in DOMAIN x.items : x.items[i] = PyStr("error"))
      [] x.t = "str"  -> Ret(StrContainsError(x.s))
      [] OTHER        -> Raise("TypeError")

\* Python's  x.get(key, default): only a mapping has the method
DictGet(x, key, default) ==
    IF x.t = "dict"
    THEN Ret(IF key \in DOMAIN x.d THEN x.d[key] ELSE default)
    ELSE Raise("AttributeError")

\* x.get(k1, EMPTY_DICT).get(k2, EMPTY_DICT)....get(kn, default)
RECURSIVE GetPath(_, _, _)
GetPath(x, path, default) ==
    IF Len(path) = 1
    THEN DictGet(x, path[1], default)
    ELSE LET r == DictGet(x, path[1], EMPTY_DICT)
         IN  IF r.ok THEN GetPath(r.v, Tail(path), default) ELSE r

RECURSIVE RepeatSeq(_, _)
RepeatSeq(s, n) == IF n = 0 THEN << >> ELSE s \o RepeatSeq(s, n - 1)

\* Python's  x * 100: a product for a number, a repetition for a string or a
\* list (the repeated string is named, not spelled out), TypeError otherwise
Times100(x) ==
    CASE x.t = "num"  -> Ret(PyNum(x.m * 100, x.e))
      [] x.t = "str"  -> Ret(PyStr(IF x.s = "" THEN "" ELSE x.s \o "*100"))
      [] x.t = "list" -> Ret(PyList(RepeatSeq(x.items, 100)))
      [] OTHER        -> Raise("TypeError")

\* Python's  x / 1000
Over1000(x) ==
    IF x.t = "num" THEN Ret(PyNum(x.m, x.e + 1)) ELSE Raise("TypeError")

IsZero(x) == x.t = "num" /\ x.m = 0

\* Python's truth value of x
Truthy(x) ==
    CASE x.t = "bool" -> x.b
      [] x.t = "none" -> FALSE
      [] x.t = "num"  -> x.m # 0
      [] x.t = "str"  -> x.s # ""
      [] x.t = "list" -> x.items # << >>
      [] x.t = "dict" -> DOMAIN x.d # {}
      [] OTHER        -> TRUE

---------------------------------------------------------------------------
(* extract_core_web_vitals *)

\* the keys of the flat record, in the order the dict literal gives them
MetricRecordKeys ==
    << "timestamp", "url", "strategy", "performance_score",
       "first_contentful_paint", "largest_contentful_paint",
       "cumulative_layout_shift", "time_to_interactive", "speed_index",
       "total_blocking_time", "first_meaningful_paint", "max_potential_fid" >>

\* output field, audit key, whether the raw value is divided by 1000
AuditTable ==
    << [field |-> "first_contentful_paint",   audit |-> "first-contentful-paint",   div |-> TRUE],
       [field |-> "largest_contentful_paint", audit |-> "largest-contentful-paint", div |-> TRUE],
       [field |-> "cumulative_layout_shift",  audit |-> "cumulative-layout-shift",  div |-> FALSE],
       [field |-> "time_to_interactive",      audit |-> "interactive",              div |-> TRUE],
       [field |-> "speed_index",              audit |-> "speed-index",              div |-> TRUE],
       [field |-> "total_blocking_time",      audit |-> "total-blocking-time",      div |-> FALSE],
       [field |-> "first_meaningful_paint",   audit |-> "first-meaningful-paint",   div |-> TRUE],
       [field |-> "max_potential_fid",        audit |-> "max-potential-fid",        div |-> FALSE] >>

AuditKeys == {AuditTable[i].audit : i \in DOMAIN AuditTable}
AuditFields == {AuditTable[i].field : i \in DOMAIN AuditTable}
NumericFields == AuditFields \cup {"performance_score"}
AuditOf(f) == CHOOSE i \in DOMAIN AuditTable : AuditTable[i].field = f

AuditValueDefaultNone(audits, row) ==
    LET r == GetPath(audits, <<row.audit, "numericValue">>, PyNone)
    IN  IF r.ok /\ row.div THEN Over1000(r.v) ELSE r

\* audits.get(<audit>, EMPTY_DICT).get("numericValue", 0) [/ 1000]
AuditValue(audits, row) ==
    LET r == GetPath(audits, <<row.audit, "numericValue">>, PyNum(0, 0))
    IN  IF r.ok /\ row.div THEN Over1000(r.v) ELSE r

\* lighthouse_result...get("score", 0) * 100
ScoreValue(lh) ==
    LET r == GetPath(lh, <<"categories", "performance", "score">>, PyNum(0, 0))
    IN  IF r.ok THEN Times100(r.v) ELSE r

ErrorDict(msg) == PyDict([error |-> PyStr(msg)])

\* the body of the try block: the outcomes of its expressions in evaluation
\* order; the first exception, if any, is the one the except clause sees
ExtractTry(data, now) ==
    LET lh     == DictGet(data, "lighthouseResult", EMPTY_DICT)
        audits == IF lh.ok THEN DictGet(lh.v, "audits", EMPTY_DICT) ELSE lh
        url    == DictGet(data, "id", PyStr(""))
        strat  == IF lh.ok
                  THEN GetPath(lh.v, <<"configSettings", "formFactor">>, PyStr(""))
                  ELSE lh
        score  == IF lh.ok THEN ScoreValue(lh.v) ELSE lh
        aud(i) == IF audits.ok THEN AuditValue(audits.v, AuditTable[i]) ELSE audits
        steps  == <<lh, audits, url, strat, score>>
                    \o [i \in DOMAIN AuditTable |-> aud(i)]
        bad    == {i \in DOMAIN steps : ~steps[i].ok}
        first  == CHOOSE i \in bad : \A j \in bad : i <= j
    IN  IF bad # {}
        THEN steps[first]
        ELSE Ret(PyDict(
               [k \in {MetricRecordKeys[i] : i \in DOMAIN MetricRecordKeys} |->
                  CASE k = "timestamp"         -> PyStr(now)
                    [] k = "url"               -> url.v
                    [] k = "strategy"          -> strat.v
                    [] k = "performance_score" -> score.v
                    [] OTHER                   -> aud(AuditOf(k)).v]))

ExtractCoreWebVitals(data, now) ==
    LET c == ContainsError(data)
    IN  IF ~c.ok THEN c
        ELSE IF c.v THEN Ret(data)
        ELSE LET r == ExtractTry(data, now)
             IN  IF r.ok THEN r
                 ELSE Ret(ErrorDict("Failed to extract metrics: " \o r.v.name))

---------------------------------------------------------------------------
(* analyze_performance *)

\* a dict's items in iteration order: a sequence of [metric, threshold]
PERFORMANCE_THRESHOLDS ==
    << [metric |-> "first_contentful_paint",   threshold |-> PyNum(1500, 1)],
       [metric |-> "largest_contentful_paint", threshold |-> PyNum(2500, 1)],
       [metric |-> "cumulative_layout_shift",  threshold |-> PyNum(100, 1)],
       [metric |-> "time_to_interactive",      threshold |-> PyNum(3800, 1)],
       [metric |-> "speed_index",              threshold |-> PyNum(3400, 1)],
       [metric |-> "total_blocking_time",      threshold |-> PyNum(300, 0)] >>

RECOMMENDATION_MAP ==
    [first_contentful_paint   |-> "Optimize critical rendering path",
     largest_contentful_paint |-> "Optimize image loading and rendering",
     cumulative_layout_shift  |-> "Fix layout shifts and use proper image dimensions",
     time_to_interactive      |-> "Reduce JavaScript execution time"]

Pow1000(e) == IF e = 0 THEN 1 ELSE IF e = 1 THEN 1000 ELSE 1000000
MinOf(a, b) == IF a <= b THEN a ELSE b

NumGreaterOrEqual(a, b) ==
    LET k == MinOf(a.e, b.e)
    IN  a.m * Pow1000(b.e - k) >= b.m * Pow1000(a.e - k)

\* a.m / 1000^a.e  >  b.m / 1000^b.e, by cross-multiplication
NumGreater(a, b) ==
    LET k == MinOf(a.e, b.e)
    IN  a.m * Pow1000(b.e - k) > b.m * Pow1000(a.e - k)

ExceedsOrEqual(value, threshold) ==
    IF value.t = "num" /\ threshold.t = "num"
    THEN Ret(NumGreaterOrEqual(value, threshold))
    ELSE Raise("TypeError")

\* Python's  value > threshold: only numbers order against a number
Exceeds(value, threshold) ==
    IF value.t = "num" /\ threshold.t = "num"
    THEN Ret(NumGreater(value, threshold))
    ELSE Raise("TypeError")

\* the issue line "<metric>: <value:.2f> (threshold: <threshold>)", kept as
\* the three things it is formatted from
IssueLine(metric, value, threshold) ==
    [metric |-> metric, value |-> value, threshold |-> threshold]

RecommendEveryIssue(recs, metric) ==
    Append(recs, IF metric \in DOMAIN RECOMMENDATION_MAP
                 THEN RECOMMENDATION_MAP[metric] ELSE "Review " \o metric)

\* if metric in RECOMMENDATION_MAP: recommendations.append(...)
Recommend(recs, metric) ==
    IF metric \in DOMAIN RECOMMENDATION_MAP
    THEN Append(recs, RECOMMENDATION_MAP[metric])
    ELSE recs

FlagWithoutIssue(analysis, metric, value, threshold) ==
    [analysis EXCEPT
        !.overall_score = "FAIL",
        !.issues = IF metric \in DOMAIN RECOMMENDATION_MAP
                   THEN Append(@, IssueLine(metric, value, threshold)) ELSE @,
        !.recommendations = Recommend(@, metric)]

\* the body of  if value > threshold:
FlagViolation(analysis, metric, value, threshold) ==
    [analysis EXCEPT
        !.overall_score = "FAIL",
        !.issues = Append(@, IssueLine(metric, value, threshold)),
        !.recommendations = Recommend(@, metric)]

\* the for loop over thresholds.items(), from entry i on
RECURSIVE AnalyzeLoop(_, _, _, _)
AnalyzeLoop(metrics, thresholds, i, analysis) ==
    IF i > Len(thresholds) THEN Ret(analysis)
    ELSE LET metric    == thresholds[i].metric
             threshold == thresholds[i].threshold
         IN  IF metric \notin DOMAIN metrics.d
             THEN AnalyzeLoop(metrics, thresholds, i + 1, analysis)
             ELSE LET c == Exceeds(metrics.d[metric], threshold)
                  IN  IF ~c.ok THEN c
                      ELSE AnalyzeLoop(metrics, thresholds, i + 1,
                             IF c.v
                             THEN FlagViolation(analysis, metric,
                                                metrics.d[metric], threshold)
                             ELSE analysis)

AnalyzePerformance(metrics, thresholds) ==
    LET c == ContainsError(metrics)
    IN  IF ~c.ok THEN c
        ELSE IF c.v THEN Ret(metrics)
        ELSE IF metrics.t # "dict" THEN Raise("TypeError")
        ELSE IF {"timestamp", "url"} \subseteq DOMAIN metrics.d
        THEN AnalyzeLoop(metrics, thresholds, 1,
               [t               |-> "analysis",
                timestamp       |-> metrics.d["timestamp"],
                url             |-> metrics.d["url"],
                overall_score   |-> "PASS",
                issues          |-> << >>,
                recommendations |-> << >>])
        ELSE Raise("KeyError")

NotRun == Ret([t |-> "notrun"])

\* what datetime.now().isoformat() may give
Timestamps == {"2025-01-27T10:00:00", "2025-01-27T10:00:01"}

---------------------------------------------------------------------------
(* load_api_key *)

\* env: os.getenv's value (None when unset).  config: the state of
\* .pagespeed_config.json: absent, unreadable (open raises IOError), not
\* UTF-8 (the read raises UnicodeDecodeError), not JSON (JSONDecodeError),
\* or a JSON document.  Only JSONDecodeError and IOError are caught.
LoadApiKey(env, config) ==
    IF Truthy(env) THEN Ret(env)
    ELSE CASE config.kind \in {"absent", "unreadable", "bad_json"} -> Ret(env)
           [] config.kind = "not_utf8" -> Raise("UnicodeDecodeError")
           [] config.kind = "json" -> DictGet(config.body, "api_key", PyNone)

---------------------------------------------------------------------------
(* test_page_speed_async *)

\* how the single GET may end: a connection failure, an HTTP error status,
\* the 30 s timeout, a body of another content type (all aiohttp.ClientError
\* or asyncio.TimeoutError), a body labelled JSON that does not parse
\* (json.JSONDecodeError, a ValueError), or a decoded body
FetchFailures == {"network_error", "http_error", "timeout", "content_type"}

TestPageSpeedAsync(key, answer) ==
    IF ~Truthy(key) THEN Ret(ErrorDict("No API key provided"))
    ELSE CASE answer.kind = "json"        -> Ret(answer.body)
           [] answer.kind = "timeout"     -> Ret(ErrorDict("API request timed out"))
           [] answer.kind = "invalid_json" -> Raise("JSONDecodeError")
           [] OTHER -> Ret(ErrorDict("API request failed: " \o answer.kind))

\* whether test_page_speed_async issues its GET
IssuesRequest(key) == Truthy(key)

---------------------------------------------------------------------------
(* run_strategy_test *)

\* Python's  x["error"]  (for the message that is printed)
ErrorItem(x) == IF x.t = "dict" THEN Ret(x.d["error"]) ELSE Raise("TypeError")

Pair(metrics, analysis) == [t |-> "pair", metrics |-> metrics, analysis |-> analysis]

\* lines 305-319: the analysis of an extracted record and the (score,
\* issues_count) summary that is printed
AnalyzeAndPrint(metrics, analysis) ==
    IF ~analysis.ok THEN [out |-> analysis, printed |-> PyNone]
    ELSE [out |-> Ret(Pair(metrics, analysis.v)),
          printed |-> [t |-> "summary",
                       score |-> analysis.v.overall_score,
                       issues_count |-> Len(analysis.v.issues)]]

\* lines 301-303, then the analysis.  (m \in {..} names the value once it is
\* computed.)
AfterExtract(metrics) ==
    LET c2 == IF metrics.ok THEN ContainsError(metrics.v) ELSE metrics
    IN  IF ~c2.ok THEN [out |-> c2, printed |-> PyNone]
        ELSE IF c2.v THEN [out |-> Ret(PyNone), printed |-> PyNone]
        ELSE CHOOSE r \in {AnalyzeAndPrint(metrics.v, a) :
                             a \in {AnalyzePerformance(metrics.v, PERFORMANCE_THRESHOLDS)}} :
                        TRUE

\* lines 295-319, given what test_page_speed_async returned or raised:
\* the outcome of run_strategy_test and the summary it prints, if any
RunStrategyTest(fetched, now) ==
    IF ~fetched.ok THEN [out |-> fetched, printed |-> PyNone]
    ELSE
    LET result == fetched.v
        c1     == ContainsError(result)
    IN  IF ~c1.ok THEN [out |-> c1, printed |-> PyNone]
        ELSE IF c1.v
        THEN [out |-> IF ErrorItem(result).ok THEN Ret(PyNone) ELSE ErrorItem(result),
              printed |-> PyNone]
        ELSE CHOOSE r \in {AfterExtract(m) :
                             m \in {ExtractCoreWebVitals(result, now)}} : TRUE

---------------------------------------------------------------------------
(* save_metrics_to_csv *)

\* a record's keys in insertion order (the records are extract's)
KeysInOrder(rec) ==
    LET has(k) == k \in DOMAIN rec.d IN SelectSeq(MetricRecordKeys, has)

\* the text csv writes for a value: nothing for None, str(v) otherwise
CsvCell(v) ==
    CASE v.t = "none" -> PyStr("")
      [] v.t = "str"  -> v
      [] OTHER        -> [t |-> "repr", of |-> v]

\* DictWriter's row for rec: one cell per field name, "" for a missing key
CsvRow(fieldnames, rec) ==
    [i \in DOMAIN fieldnames |->
        IF fieldnames[i] \in DOMAIN rec.d
        THEN CsvCell(rec.d[fieldnames[i]]) ELSE PyStr("")]

\* the header line and one line per record
CsvLines(metrics) ==
    LET fieldnames == KeysInOrder(metrics[1])
    IN  <<[i \in DOMAIN fieldnames |-> PyStr(fieldnames[i])]>>
          \o [i \in DOMAIN metrics |-> CsvRow(fieldnames, metrics[i])]

NoFile == [exists |-> FALSE, lines |-> << >>]
FileWith(lines) == [exists |-> TRUE, lines |-> lines]

\* what the file system may do to a write of n lines: nothing wrong, refuse
\* the open, or fail after k < n lines have reached the file
IoOutcomes(n) ==
    {[fail |-> "none", after |-> n], [fail |-> "open", after |-> 0]}
      \cup {[fail |-> "write", after |-> k] : k \in 0 .. (n - 1)}

\* DictWriter(extrasaction="raise"): the first record holding a key that is
\* not a field name, 0 when there is none
FirstExtra(fieldnames, metrics) ==
    LET names == {fieldnames[i] : i \in DOMAIN fieldnames}
        bad   == {i \in DOMAIN metrics : ~(DOMAIN metrics[i].d \subseteq names)}
    IN  IF bad = {} THEN 0 ELSE CHOOSE i \in bad : \A j \in bad : i <= j

\* the empty-list check made after the file is opened
SaveMetricsToCsvOpenFirst(metrics, file, io) ==
    IF io.fail = "open" THEN [file |-> file, out |-> Raise("OSError")]
    ELSE IF metrics = << >> THEN [file |-> FileWith(<< >>), out |-> Ret(PyNone)]
    ELSE [file |-> FileWith(CsvLines(metrics)), out |-> Ret(PyNone)]

\* open(filename, "w") truncates the file before anything is written; an
\* error after that leaves what had been written so far.  writerows takes
\* the records one by one, so a record with a key outside the field names
\* raises ValueError after the rows before it have been written.
SaveMetricsToCsv(metrics, file, io) ==
    IF metrics = << >> THEN [file |-> file, out |-> Ret(PyNone)]
    ELSE LET extra == FirstExtra(KeysInOrder(metrics[1]), metrics)
             limit == IF extra = 0 THEN Len(metrics) + 1 ELSE extra
         IN  CASE io.fail = "open"  -> [file |-> file, out |-> Raise("OSError")]
               [] io.fail = "write" /\ io.after < limit ->
                    [file |-> FileWith(SubSeq(CsvLines(metrics), 1, io.after)),
                     out  |-> Raise("OSError")]
               [] OTHER ->
                    IF extra # 0
                    THEN [file |-> FileWith(SubSeq(CsvLines(metrics), 1, limit)),
                          out  |-> Raise("ValueError")]
                    ELSE [file |-> FileWith(CsvLines(metrics)), out |-> Ret(PyNone)]

---------------------------------------------------------------------------
(* the text csv.writer puts in the file (dialect excel, newline="") *)

\* A text is a sequence of pieces: each piece is one of the four characters
\* the dialect treats specially, or a run of other characters.
Comma == ","
Quote == "\""
CR == "\r"
LF == "\n"
SpecialChars == {Comma, Quote, CR, LF}

\* the pieces of a Python string; the strings of the model that hold a
\* special character are spelled out, every other string is one run
CharsOf(s) ==
    CASE s = ""       -> << >>
      [] s = ","      -> <<Comma>>
      [] s = "a,b"    -> <<"a", Comma, "b">>
      [] s = "\""     -> <<Quote>>
      [] s = "a\"b"   -> <<"a", Quote, "b">>
      [] s = "a\nb"   -> <<"a", LF, "b">>
      [] s = "a\r\nb" -> <<"a", CR, LF, "b">>
      [] s = "\r"     -> <<CR>>
      [] OTHER        -> <<s>>

\* str() of a number: a run of digits, sign, point and exponent that names
\* the number m / 1000^e (Python's spelling of the same number differs, and
\* is as free of special characters)
NumText(v) ==
    IF v.e = 0 THEN ToString(v.m)
    ELSE ToString(v.m) \o "e-" \o ToString(3 * v.e)

\* the text of a cell: the string itself, str() of any other value
CellText(cell) ==
    IF cell.t = "str" THEN CharsOf(cell.s)
    ELSE CASE cell.of.t = "num"  -> <<NumText(cell.of)>>
           [] cell.of.t = "bool" -> <<IF cell.of.b THEN "True" ELSE "False">>
           [] cell.of.t = "list" /\ cell.of.items = << >> -> <<"[]">>
           [] cell.of.t = "dict" /\ DOMAIN cell.of.d = {} -> <<"{}">>
           [] OTHER -> <<"<object>">>

RECURSIVE DoubleQuotes(_)
DoubleQuotes(text) ==
    IF text = << >> THEN << >>
    ELSE (IF Head(text) = Quote THEN <<Quote, Quote>> ELSE <<Head(text)>>)
            \o DoubleQuotes(Tail(text))

QuoteFieldNoDoubling(text) == <<Quote>> \o text \o <<Quote>>

\* a quoted field: its quotes doubled, between two quotes
QuoteField(text) == <<Quote>> \o DoubleQuotes(text) \o <<Quote>>

\* QUOTE_MINIMAL: a field is quoted when it holds the delimiter, the quote
\* character or a character of the line terminator
NeedsQuote(text) == \E i \in DOMAIN text : text[i] \in SpecialChars

WriteField(text) == IF NeedsQuote(text) THEN QuoteField(text) ELSE text

RECURSIVE JoinFields(_)
JoinFields(texts) ==
    IF texts = << >> THEN << >>
    ELSE IF Len(texts) = 1 THEN WriteField(texts[1])
    ELSE WriteField(texts[1]) \o <<Comma>> \o JoinFields(Tail(texts))

\* writerow: the fields joined by the delimiter, then "\r\n"; a row of one
\* empty field, which would be an empty line, is written as two quotes
RowText(cells) ==
    LET joined == JoinFields([i \in DOMAIN cells |-> CellText(cells[i])])
    IN  (IF joined = << >> /\ cells # << >> THEN <<Quote, Quote>> ELSE joined)
            \o <<CR, LF>>

\* the characters of the file, given the rows written to it
RECURSIVE RowsText(_)
RowsText(lines) ==
    IF lines = << >> THEN << >> ELSE RowText(Head(lines)) \o RowsText(Tail(lines))

FileText(file) == RowsText(file.lines)

---------------------------------------------------------------------------
(* async_main's final report *)

\* strategy = metrics.get("strategy", "unknown"); strategy.upper()
ReportHeading(metrics) ==
    LET g == DictGet(metrics, "strategy", PyStr("unknown"))
    IN  IF ~g.ok THEN g
        ELSE IF g.v.t = "str" THEN g ELSE Raise("AttributeError")

IsErrorAnalysis(analysis) == analysis.t = "dict" /\ "error" \in DOMAIN analysis.d

\* generate_performance_report: what the report text is built from
GeneratePerformanceReport(analysis) ==
    IF IsErrorAnalysis(analysis)
    THEN [t |-> "report", error |-> TRUE, score |-> "", issues |-> << >>,
          recommendations |-> << >>]
    ELSE [t |-> "report", error |-> FALSE,
          score |-> analysis.overall_score,
          issues |-> analysis.issues,
          recommendations |-> analysis.recommendations]

\* the for loop of lines 363-367 from entry i on: the reports printed, and
\* the exception that stops it, if any
RECURSIVE ReportLoop(_, _, _)
ReportLoop(valid, i, printed) ==
    IF i > Len(valid) THEN [printed |-> printed, out |-> Ret(PyNone)]
    ELSE LET h == ReportHeading(valid[i].metrics)
         IN  IF ~h.ok THEN [printed |-> printed, out |-> h]
             ELSE ReportLoop(valid, i + 1,
                    Append(printed, [strategy |-> h.v,
                                     report |-> GeneratePerformanceReport(valid[i].analysis)]))

---------------------------------------------------------------------------
(* async_main: one run of the monitor *)

Strategies == <<"mobile", "desktop">>
StrategySet == {Strategies[i] : i \in DOMAIN Strategies}
Running == [how |-> "running", v |-> PyNone]

CfIdle ==
    /\ cf_zone = FALSE /\ cf_token = FALSE /\ cf_entry = "none"
    /\ cf_pc = "idle" /\ cf_cache_i = 0 /\ cf_count = 0 /\ cf_sent = 0
    /\ cf_result = NotRun /\ cf_end = [how |-> "running", v |-> PyNone]

SaveIdle ==
    /\ save_metrics = << >> /\ save_before = NoFile /\ save_file = NoFile
    /\ save_out = NotRun /\ save_pc = "idle"

RunIdle ==
    /\ env_key = PyNone /\ config_file = [kind |-> "absent", body |-> PyNone]
    /\ csv_before = NoFile /\ csv_file = NoFile /\ api_key = PyNone
    /\ m_pc = "idle" /\ m_end = Running
    /\ t_pc = [s \in StrategySet |-> "idle"]
    /\ t_answer = [s \in StrategySet |-> [kind |-> "none", body |-> PyNone]]
    /\ t_fetched = [s \in StrategySet |-> NotRun]
    /\ t_result = [s \in StrategySet |-> NotRun]
    /\ t_printed = [s \in StrategySet |-> PyNone]
    /\ http_sent = [s \in StrategySet |-> 0]
    /\ valid_results = << >> /\ reported = << >>

\* the environment variable: unset, set to nothing, set to a key
EnvValues == {PyNone, PyStr(""), PyStr("ENV-KEY")}

\* the config file: absent, unreadable, not UTF-8, not JSON, or JSON
ConfigFiles ==
    {[kind |-> k, body |-> PyNone] :
        k \in {"absent", "unreadable", "not_utf8", "bad_json"}} \cup
    {[kind |-> "json", body |-> b] :
        b \in {PyDict([api_key |-> PyStr("FILE-KEY")]),
               PyDict([api_key |-> PyStr("")]),
               PyDict([api_key |-> PyNone]),
               EMPTY_DICT,
               PyList(<< >>)}}

\* with a key in the environment the file is not read: two files suffice
KeySources ==
    {c \in EnvValues \X ConfigFiles :
        Truthy(c[1]) => c[2] \in {[kind |-> "absent", body |-> PyNone],
                                  [kind |-> "json",
                                   body |-> PyDict([api_key |-> PyStr("FILE-KEY")])]}}

OldCsv == FileWith(<<<<PyStr("timestamp")>>, <<PyStr("2025-01-26T10:00:00")>>>>)

Audit(n) == PyDict([numericValue |-> PyNum(n, 0)])

Lighthouse(form, score, audits) ==
    PyDict([configSettings |-> PyDict([formFactor |-> form]),
            categories |-> PyDict([performance |-> PyDict([score |-> score])]),
            audits |-> PyDict(audits)])

Page(lh) == PyDict([id |-> PyStr("https://www.maytenlane.com"), lighthouseResult |-> lh])

\* the decoded bodies a GET may bring back
Bodies ==
    {Page(Lighthouse(PyStr("mobile"), PyNum(950, 1),
            [k \in {"first-contentful-paint"} |-> Audit(1000)])),
     Page(Lighthouse(PyStr("mobile"), PyNum(420, 1),
            [k \in {"first-contentful-paint"} |-> Audit(2200)])),
     Page(Lighthouse(PyStr("mobile"), PyNum(600, 1),
            [k \in {"speed-index"} |-> Audit(5000)])),
     Page(Lighthouse(PyNone, PyNum(950, 1),
            [k \in {"first-contentful-paint"} |-> Audit(1000)])),
     Page(Lighthouse(PyStr("mobile"), PyNum(950, 1),
            [k \in {"cumulative-layout-shift"} |-> PyDict([numericValue |-> PyNone])])),
     Page(PyNone),
     EMPTY_DICT,
     PyNone,
     PyDict([error |-> PyDict([code |-> PyNum(400, 0)])])}

Answers ==
    {[kind |-> k, body |-> PyNone] : k \in FetchFailures \cup {"invalid_json"}}
      \cup {[kind |-> "json", body |-> b] : b \in Bodies}

Init ==
    /\ \E c \in KeySources : env_key = c[1] /\ config_file = c[2]
    /\ csv_before \in {NoFile, OldCsv}
    /\ csv_file = csv_before
    /\ api_key = PyNone
    /\ m_pc = "start" /\ m_end = Running
    /\ t_pc = [s \in StrategySet |-> "idle"]
    /\ t_answer = [s \in StrategySet |-> [kind |-> "none", body |-> PyNone]]
    /\ t_fetched = [s \in StrategySet |-> NotRun]
    /\ t_result = [s \in StrategySet |-> NotRun]
    /\ t_printed = [s \in StrategySet |-> PyNone]
    /\ http_sent = [s \in StrategySet |-> 0]
    /\ valid_results = << >> /\ reported = << >>
    /\ response = PyNone /\ extracted = NotRun /\ epc = "idle"
    /\ record = PyNone /\ table = << >> /\ analysed = NotRun /\ apc = "idle"
    /\ CfIdle /\ SaveIdle

Uncaught(exc) == [how |-> "uncaught", v |-> exc]
Returned == [how |-> "returned", v |-> PyNone]

\* lines 329-345: load the key; without one print the guidance and return;
\* with one create the session and the two tasks and await gather
MainLoadKey ==
    /\ m_pc = "start"
    /\ LET k == LoadApiKey(env_key, config_file)
       IN  IF ~k.ok
           THEN m_pc' = "ended" /\ m_end' = Uncaught(k.v) /\ UNCHANGED <<api_key, t_pc>>
           ELSE /\ api_key' = k.v
                /\ IF Truthy(k.v)
                   THEN /\ m_pc' = "gather"
                        /\ t_pc' = [s \in StrategySet |-> "created"]
                        /\ UNCHANGED m_end
                   ELSE m_pc' = "ended" /\ m_end' = Returned /\ UNCHANGED t_pc
    /\ UNCHANGED <<env_key, config_file, csv_before, csv_file, t_answer, t_fetched,
                   t_result, t_printed, http_sent, valid_results, reported,
                   extractVars, analyzeVars, cfVars, saveVars>>

\* a task's first step: run_strategy_test up to the await of the GET.  The
\* event loop starts the tasks in the order gather received them.
TaskStart(s) ==
    /\ t_pc[s] = "created"
    /\ \A i, j \in DOMAIN Strategies :
          (Strategies[j] = s /\ i < j) => t_pc[Strategies[i]] # "created"
    /\ IF IssuesRequest(api_key)
       THEN /\ http_sent' = [http_sent EXCEPT ![s] = @ + 1]
            /\ t_pc' = [t_pc EXCEPT ![s] = "fetching"]
       ELSE /\ UNCHANGED http_sent
            /\ t_pc' = [t_pc EXCEPT ![s] = "fetching"]
    /\ UNCHANGED <<env_key, config_file, csv_before, csv_file, api_key, m_pc, m_end,
                   t_answer, t_fetched, t_result, t_printed, valid_results,
                   reported, extractVars, analyzeVars, cfVars, saveVars>>

\* a task's second step: the GET ends and the rest of run_strategy_test,
\* which awaits nothing more, runs to its return or its exception
TaskFinish(s) ==
    /\ t_pc[s] = "fetching"
    /\ \A u \in StrategySet : t_pc[u] # "created"
    /\ \E answer \in Answers, now \in Timestamps :
          \E fetched \in {TestPageSpeedAsync(api_key, answer)} :
          \E r \in {RunStrategyTest(fetched, now)} :
              /\ t_answer' = [t_answer EXCEPT ![s] = answer]
              /\ t_fetched' = [t_fetched EXCEPT ![s] = fetched]
              /\ t_result' = [t_result EXCEPT ![s] = r.out]
              /\ t_printed' = [t_printed EXCEPT ![s] = r.printed]
              /\ t_pc' = [t_pc EXCEPT ![s] = IF r.out.ok THEN "done" ELSE "raised"]
    /\ UNCHANGED <<env_key, config_file, csv_before, csv_file, api_key, m_pc, m_end,
                   http_sent, valid_results, reported,
                   extractVars, analyzeVars, cfVars, saveVars>>

\* gather without return_exceptions: the first exception of a task is raised
\* in async_main at once; nothing catches it, the session closes and
\* asyncio.run cancels the tasks still running
GatherRaises ==
    /\ m_pc = "gather"
    /\ \E s \in StrategySet :
          /\ t_pc[s] = "raised"
          /\ m_end' = Uncaught(t_result[s].v)
    /\ m_pc' = "ended"
    /\ t_pc' = [s \in StrategySet |->
                  IF t_pc[s] \in {"created", "fetching"} THEN "cancelled" ELSE t_pc[s]]
    /\ UNCHANGED <<env_key, config_file, csv_before, csv_file, api_key, t_answer,
                   t_fetched, t_result, t_printed, http_sent, valid_results,
                   reported, extractVars, analyzeVars, cfVars, saveVars>>

\* the results in the order of the strategies, None results dropped
RECURSIVE ValidFrom(_, _)
ValidFrom(results, i) ==
    IF i > Len(Strategies) THEN << >>
    ELSE (IF results[Strategies[i]].v.t = "pair"
          THEN <<results[Strategies[i]].v>> ELSE << >>) \o ValidFrom(results, i + 1)

\* lines 346-349: both tasks returned; gather gives their results in order
GatherReturns ==
    /\ m_pc = "gather"
    /\ \A s \in StrategySet : t_pc[s] = "done"
    /\ valid_results' = ValidFrom(t_result, 1)
    /\ m_pc' = "save"
    /\ UNCHANGED <<env_key, config_file, csv_before, csv_file, api_key, m_end, t_pc,
                   t_answer, t_fetched, t_result, t_printed, http_sent, reported,
                   extractVars, analyzeVars, cfVars, saveVars>>

AllMetrics(valid) == [i \in DOMAIN valid |-> valid[i].metrics]

\* lines 352-355
MainSave ==
    /\ m_pc = "save"
    /\ IF AllMetrics(valid_results) = << >>
       THEN m_pc' = "report" /\ UNCHANGED <<csv_file, m_end>>
       ELSE \E io \in IoOutcomes(Len(valid_results) + 1) :
              LET w == SaveMetricsToCsv(AllMetrics(valid_results), csv_file, io)
              IN  /\ csv_file' = w.file
                  /\ IF w.out.ok
                     THEN m_pc' = "report" /\ UNCHANGED m_end
                     ELSE m_pc' = "ended" /\ m_end' = Uncaught(w.out.v)
    /\ UNCHANGED <<env_key, config_file, csv_before, api_key, t_pc, t_answer,
                   t_fetched, t_result, t_printed, http_sent, valid_results,
                   reported, extractVars, analyzeVars, cfVars, saveVars>>

\* lines 358-370
MainReport ==
    /\ m_pc = "report"
    /\ LET r == ReportLoop(valid_results, 1, << >>)
       IN  /\ reported' = r.printed
           /\ m_end' = IF r.out.ok THEN Returned ELSE Uncaught(r.out.v)
    /\ m_pc' = "ended"
    /\ UNCHANGED <<env_key, config_file, csv_before, csv_file, api_key, t_pc,
                   t_answer, t_fetched, t_result, t_printed, http_sent,
                   valid_results, extractVars, analyzeVars, cfVars, saveVars>>

Next ==
    \/ MainLoadKey
    \/ \E s \in StrategySet : TaskStart(s)
    \/ \E s \in StrategySet : TaskFinish(s)
    \/ GatherRaises
    \/ GatherReturns
    \/ MainSave
    \/ MainReport

Spec == Init /\ [][Next]_vars

---------------------------------------------------------------------------
(* apply_cloudflare_settings.py *)

\* what the Cloudflare API may answer to one request: no answer (a network
\* failure), an HTTP error status, a body that is not JSON, or a JSON object
ApiAnswers ==
    {[kind |-> "network_error", body |-> PyNone],
     [kind |-> "http_error",    body |-> PyNone],
     [kind |-> "bad_json",      body |-> PyNone],
     [kind |-> "json", body |-> PyDict([success |-> PyBool(TRUE)])],
     [kind |-> "json", body |-> PyDict([success |-> PyBool(FALSE)])],
     [kind |-> "json", body |-> EMPTY_DICT]}

SupportedMethods == {"GET", "POST", "PUT", "DELETE"}

\* make_api_request: an unsupported method raises ValueError inside the try,
\* which catches RequestException only; requests' own failures (connection,
\* HTTP status, undecodable body) are RequestExceptions and are caught
MakeApiRequest(method, answer) ==
    IF method \notin SupportedMethods
    THEN Raise("ValueError")
    ELSE IF answer.kind = "json"
    THEN Ret(answer.body)
    ELSE Ret(PyDict([success |-> PyBool(FALSE), error |-> PyStr(answer.kind)]))

\* whether a call of make_api_request puts a request on the wire
SendsRequest(method) == method \in SupportedMethods

\* if result.get("success"): return True  else: ... return False
StepVerdict(result) ==
    IF ~result.ok THEN result
    ELSE LET g == DictGet(result.v, "success", PyNone)
         IN  IF g.ok THEN Ret(PyBool(Truthy(g.v))) ELSE g

\* CACHE_SETTINGS.items(), in order
CacheFileTypes == <<"html", "css", "js", "images", "fonts">>

\* the five steps in main's order, and the HTTP method each one passes
CfSteps == <<"security", "cache", "ssl", "minify", "brotli">>
StepMethod(step) == IF step \in {"security", "cache"} THEN "POST" ELSE "PATCH"

StepAfter(step) ==
    CASE step = "security" -> "cache"
      [] step = "cache"    -> "ssl"
      [] step = "ssl"      -> "minify"
      [] step = "minify"   -> "brotli"
      [] step = "brotli"   -> "finish"

InitCloudflare ==
    /\ cf_zone \in BOOLEAN /\ cf_token \in BOOLEAN
    /\ cf_entry \in {"main"} \cup {CfSteps[i] : i \in DOMAIN CfSteps}
    /\ cf_pc = cf_entry
    /\ cf_cache_i = 0 /\ cf_count = 0 /\ cf_sent = 0
    /\ cf_result = NotRun /\ cf_end = [how |-> "running", v |-> PyNone]
    /\ response = PyNone /\ extracted = NotRun /\ epc = "idle"
    /\ record = PyNone /\ table = << >> /\ analysed = NotRun /\ apc = "idle"
    /\ RunIdle /\ SaveIdle

\* main, lines 231-234: the placeholder check
MainCheckConfig ==
    /\ cf_pc = "main"
    /\ IF cf_zone /\ cf_token
       THEN cf_pc' = "security" /\ UNCHANGED cf_end
       ELSE cf_pc' = "exited" /\ cf_end' = [how |-> "exit", v |-> PyNum(1, 0)]
    /\ UNCHANGED <<cf_zone, cf_token, cf_entry, cf_cache_i, cf_count, cf_sent,
                   cf_result, extractVars, analyzeVars, runVars, saveVars>>

\* main, lines 255-264: exit status 1 unless all five steps succeeded
MainFinish(count) ==
    /\ cf_pc' = "exited"
    /\ cf_end' = [how |-> "exit",
                  v |-> IF count = Len(CfSteps) THEN PyNum(0, 0) ELSE PyNum(1, 0)]

\* a step function has finished with verdict: it raised, or it returned to
\* main (which counts a True and goes on) or to the caller that called it
StepDone(step, verdict) ==
    IF ~verdict.ok
    THEN /\ cf_pc' = "crashed"
         /\ cf_end' = [how |-> "uncaught", v |-> verdict.v]
         /\ UNCHANGED cf_count
    ELSE IF cf_entry = "main"
    THEN LET count == IF verdict.v.b THEN cf_count + 1 ELSE cf_count
         IN  /\ cf_count' = count
             /\ IF StepAfter(step) = "finish"
                THEN MainFinish(count)
                ELSE cf_pc' = StepAfter(step) /\ UNCHANGED cf_end
    ELSE /\ cf_pc' = "returned"
         /\ cf_end' = [how |-> "return", v |-> verdict.v]
         /\ UNCHANGED cf_count

\* a step that makes one request: security headers, SSL/TLS, minification,
\* Brotli
SingleRequestStep(step) ==
    /\ \E answer \in ApiAnswers :
          LET result == MakeApiRequest(StepMethod(step), answer)
          IN  /\ cf_result' = result
              /\ cf_sent' = IF SendsRequest(StepMethod(step))
                             THEN cf_sent + 1 ELSE cf_sent
              /\ StepDone(step, StepVerdict(result))
    /\ UNCHANGED <<cf_zone, cf_token, cf_entry, cf_cache_i,
                   extractVars, analyzeVars, runVars, saveVars>>

ApplySecurityHeaders ==
    /\ cf_pc = "security"
    /\ SingleRequestStep("security")

\* one iteration of apply_cache_settings' loop: the first failure returns
\* False, the last success returns True
ApplyCacheSettings ==
    /\ cf_pc = "cache"
    /\ \E answer \in ApiAnswers :
          LET result  == MakeApiRequest(StepMethod("cache"), answer)
              verdict == StepVerdict(result)
          IN  /\ cf_result' = result
              /\ cf_sent' = IF SendsRequest(StepMethod("cache"))
                             THEN cf_sent + 1 ELSE cf_sent
              /\ IF verdict.ok /\ verdict.v.b /\ cf_cache_i + 1 < Len(CacheFileTypes)
                 THEN /\ cf_cache_i' = cf_cache_i + 1
                      /\ UNCHANGED <<cf_pc, cf_count, cf_end>>
                 ELSE /\ cf_cache_i' = 0
                      /\ StepDone("cache", verdict)
    /\ UNCHANGED <<cf_zone, cf_token, cf_entry, extractVars, analyzeVars, runVars, saveVars>>

EnableSslTls ==
    /\ cf_pc = "ssl"
    /\ SingleRequestStep("ssl")

EnableMinification ==
    /\ cf_pc = "minify"
    /\ SingleRequestStep("minify")

EnableBrotliCompression ==
    /\ cf_pc = "brotli"
    /\ SingleRequestStep("brotli")

NextCloudflare ==
    \/ MainCheckConfig
    \/ ApplySecurityHeaders
    \/ ApplyCacheSettings
    \/ EnableSslTls
    \/ EnableMinification
    \/ EnableBrotliCompression

SpecCloudflare == InitCloudflare /\ [][NextCloudflare]_vars

---------------------------------------------------------------------------
(* The extractor on its own: every decoded response of a bounded family *)

Absent == [t |-> "absent"]

\* the mapping that holds the keys of f whose value is not Absent
DictOf(f) == PyDict([k \in {x \in DOMAIN f : f[x] # Absent} |-> f[k]])

\* what an audit entry may be: null, a scalar, an empty mapping, a mapping
\* whose numericValue is a number, null or a string
AuditVals ==
    {PyNone, EMPTY_DICT,
     PyDict([numericValue |-> PyNum(2200, 0)]),
     PyDict([numericValue |-> PyNone]),
     PyDict([numericValue |-> PyStr("n/a")])}

AuditMaps ==
    UNION {[S -> AuditVals] :
             S \in {X \in SUBSET AuditKeys : Cardinality(X) <= MaxAudits}}

AuditsVals == {Absent, PyNone} \cup {PyDict(m) : m \in AuditMaps}

CategoriesVals ==
    {Absent, PyNone, EMPTY_DICT,
     PyDict([performance |-> PyDict([score |-> PyNum(420, 1)])]),
     PyDict([performance |-> PyDict([score |-> PyStr("n/a")])])}

ConfigVals ==
    {Absent, PyNone, PyDict([formFactor |-> PyStr("mobile")])}

LighthouseVals ==
    {Absent, PyNone, PyStr("n/a")} \cup
    {DictOf([audits |-> a, categories |-> c, configSettings |-> s]) :
        a \in AuditsVals, c \in CategoriesVals, s \in ConfigVals}

\* a JSON document decodes to any value, not only to a mapping
Responses ==
    {PyNone, PyNum(42, 0), PyStr("ok"), PyStr("server error"),
     PyList(<< >>), PyList(<<PyStr("error")>>),
     PyDict([error |-> PyDict([code |-> PyNum(400, 0)])])} \cup
    {DictOf([id |-> i, lighthouseResult |-> l]) :
        i \in {Absent, PyStr("https://www.maytenlane.com")},
        l \in LighthouseVals}

InitExtract ==
    /\ response \in Responses
    /\ extracted = NotRun
    /\ epc = "start"
    /\ record = PyNone /\ table = << >> /\ analysed = NotRun /\ apc = "idle"
    /\ CfIdle /\ RunIdle /\ SaveIdle

Extract ==
    /\ epc = "start"
    /\ \E now \in Timestamps :
          extracted' = ExtractCoreWebVitals(response, now)
    /\ epc' = "done"
    /\ UNCHANGED <<response, analyzeVars, cfVars, runVars, saveVars>>

NextExtract == Extract

SpecExtract == InitExtract /\ [][NextExtract]_vars

---------------------------------------------------------------------------
(* The analyzer on its own: bounded threshold tables and flat records *)

ThresholdMetrics ==
    {PERFORMANCE_THRESHOLDS[i].metric : i \in DOMAIN PERFORMANCE_THRESHOLDS}

\* 1.5 and 2
ThresholdVals == {PyNum(1500, 1), PyNum(2, 0)}
\* 1.5, 2 and 3: below, at and above a threshold
RecordVals == {PyNum(1500, 1), PyNum(2000, 1), PyNum(3, 0)}

\* the metrics of the generated tables: two with a recommendation, two
\* without (PERFORMANCE_THRESHOLDS itself brings all six)
TableMetrics ==
    {"first_contentful_paint", "cumulative_layout_shift",
     "speed_index", "total_blocking_time"}

\* sequences of at most n metrics
RECURSIVE MetricOrders(_)
MetricOrders(n) ==
    IF n = 0 THEN {<< >>}
    ELSE LET shorter == MetricOrders(n - 1)
         IN  shorter \cup
             {Append(s, m) : s \in {x \in shorter : Len(x) = n - 1},
                             m \in TableMetrics}

Distinct(s) == \A i, j \in DOMAIN s : i # j => s[i] # s[j]

Tables ==
    {PERFORMANCE_THRESHOLDS} \cup
    UNION {{[i \in DOMAIN o |-> [metric |-> o[i], threshold |-> v[i]]] :
              v \in [DOMAIN o -> ThresholdVals]} :
           o \in {x \in MetricOrders(MaxThresholds) : Distinct(x)}}

Records ==
    UNION {{PyDict([k \in S \cup {"timestamp", "url"} |->
                     CASE k = "timestamp" -> PyStr("2025-01-27T10:00:00")
                       [] k = "url"       -> PyStr("https://www.maytenlane.com")
                       [] OTHER           -> f[k]]) :
              f \in [S -> RecordVals]} :
           S \in {X \in SUBSET ThresholdMetrics :
                     Cardinality(X) <= MaxRecordMetrics}}

InitAnalyze ==
    /\ record \in Records
    /\ table \in Tables
    /\ analysed = NotRun
    /\ apc = "start"
    /\ response = PyNone /\ extracted = NotRun /\ epc = "idle"
    /\ CfIdle /\ RunIdle /\ SaveIdle

Analyze ==
    /\ apc = "start"
    /\ analysed' = AnalyzePerformance(record, table)
    /\ apc' = "done"
    /\ UNCHANGED <<record, table, extractVars, cfVars, runVars, saveVars>>

NextAnalyze == Analyze

SpecAnalyze == InitAnalyze /\ [][NextAnalyze]_vars

---------------------------------------------------------------------------
(* The CSV writer on its own, next to the run that calls it *)

\* the values of a field: None, numbers, plain strings and strings holding a
\* delimiter, a quote or a line break
SaveCellVals ==
    {PyNone, PyNum(0, 0), PyNum(1500, 1), PyStr(""), PyStr("a"),
     PyStr("a,b"), PyStr("a\"b"), PyStr("a\nb")}

\* records of three shapes: no key, one key, two keys
SaveRecords ==
    {EMPTY_DICT}
      \cup {PyDict([k \in {"url"} |-> v]) : v \in SaveCellVals}
      \cup {PyDict([k \in {"url", "strategy"} |-> IF k = "url" THEN u ELSE t]) :
               u \in {PyStr(""), PyStr("a,b"), PyStr("a\nb"), PyStr("u")},
               t \in {PyNone, PyStr("a\"b"), PyNum(1500, 1)}}

\* the lists of at most n records, uniformly shaped or not
RECURSIVE RecordLists(_)
RecordLists(n) ==
    IF n = 0 THEN {<< >>}
    ELSE LET shorter == RecordLists(n - 1)
         IN  shorter \cup
             {Append(l, r) : l \in {x \in shorter : Len(x) = n - 1},
                             r \in SaveRecords}

InitSave ==
    /\ save_metrics \in RecordLists(MaxRecords)
    /\ save_before \in {NoFile, OldCsv}
    /\ save_file = save_before
    /\ save_out = NotRun /\ save_pc = "start"
    /\ response = PyNone /\ extracted = NotRun /\ epc = "idle"
    /\ record = PyNone /\ table = << >> /\ analysed = NotRun /\ apc = "idle"
    /\ CfIdle /\ RunIdle

\* one call of save_metrics_to_csv(save_metrics, OUTPUT_FILE)
Save ==
    /\ save_pc = "start"
    /\ \E io \in IoOutcomes(Len(save_metrics) + 1) :
          \E w \in {SaveMetricsToCsv(save_metrics, save_file, io)} :
              /\ save_file' = w.file
              /\ save_out' = w.out
    /\ save_pc' = "done"
    /\ UNCHANGED <<save_metrics, save_before, extractVars, analyzeVars, cfVars,
                   runVars>>

\* the writer called directly, or a run of the monitor
InitSaveOrRun == InitSave \/ Init

NextSave ==
    \/ Save
    \/ Next

SpecSave == InitSaveOrRun /\ [][NextSave]_vars

---------------------------------------------------------------------------
(* Claims about the extractor (SpecExtract) *)

KeySet(seq) == {seq[i] : i \in DOMAIN seq}
IsMetricRecord(v) == v.t = "dict" /\ DOMAIN v.d = KeySet(MetricRecordKeys)
IsErrorMapping(v) == v.t = "dict" /\ "error" \in DOMAIN v.d

\* C4: extract_core_web_vitals never raises: whatever the decoded response
\* is, it returns a flat metric record or a mapping with an "error" entry.
C4_ExtractNeverRaises ==
    epc = "done" =>
        /\ extracted.ok
        /\ IsMetricRecord(extracted.v) \/ IsErrorMapping(extracted.v)

\* where each numeric field of the record is read from in the response
FieldPath(f) ==
    IF f = "performance_score"
    THEN <<"lighthouseResult", "categories", "performance", "score">>
    ELSE <<"lighthouseResult", "audits", AuditTable[AuditOf(f)].audit, "numericValue">>

\* the field at path is missing: following path through mappings reaches a
\* mapping that has no entry for the next key
RECURSIVE MissingAt(_, _)
MissingAt(x, path) ==
    /\ x.t = "dict"
    /\ \/ path[1] \notin DOMAIN x.d
       \/ Len(path) > 1 /\ MissingAt(x.d[path[1]], Tail(path))

\* what the response does hold along path is a mapping at every inner key
\* and a number at the last one
RECURSIVE ShapedAt(_, _)
ShapedAt(x, path) ==
    /\ x.t = "dict"
    /\ path[1] \in DOMAIN x.d =>
          IF Len(path) = 1 THEN x.d[path[1]].t = "num"
          ELSE ShapedAt(x.d[path[1]], Tail(path))

\* a response mapping without an "error" entry whose present parts have the
\* shape the API documents; any of them may be missing
WellShaped(x) ==
    /\ x.t = "dict" /\ "error" \notin DOMAIN x.d
    /\ \A f \in NumericFields : ShapedAt(x, FieldPath(f))
    /\ "lighthouseResult" \in DOMAIN x.d =>
          /\ x.d["lighthouseResult"].t = "dict"
          /\ \A k \in {"configSettings", "audits", "categories"} :
                k \in DOMAIN x.d["lighthouseResult"].d =>
                    x.d["lighthouseResult"].d[k].t = "dict"
          /\ "audits" \in DOMAIN x.d["lighthouseResult"].d =>
                \A a \in DOMAIN x.d["lighthouseResult"].d["audits"].d :
                    x.d["lighthouseResult"].d["audits"].d[a].t = "dict"

\* C10: on a response mapping whose present parts are well shaped, extract
\* returns a metric record, not an error, and every numeric field whose
\* source is missing is 0 whatever the other fields hold; in particular a
\* response lacking every audit field and the performance category gives a
\* record whose ten numeric fields are all 0.
C10_MissingFieldsDefaultToZero ==
    (epc = "done" /\ WellShaped(response)) =>
        /\ extracted.ok
        /\ IsMetricRecord(extracted.v)
        /\ \A f \in NumericFields :
              MissingAt(response, FieldPath(f)) => IsZero(extracted.v.d[f])

C10_Witness ==
    /\ epc = "done" /\ WellShaped(response)
    /\ \A f \in NumericFields : MissingAt(response, FieldPath(f))
    /\ extracted.ok /\ IsMetricRecord(extracted.v)
    /\ \A f \in NumericFields : IsZero(extracted.v.d[f])

---------------------------------------------------------------------------
(* Claims about the analyzer (SpecAnalyze) *)

\* a > b for the numbers a.m / 1000^a.e and b.m / 1000^b.e
RatGreater(a, b) == a.m * Pow1000(b.e) > b.m * Pow1000(a.e)

\* entry i of the table names a metric the record holds above its threshold
ViolatedAt(i) ==
    /\ table[i].metric \in DOMAIN record.d
    /\ RatGreater(record.d[table[i].metric], table[i].threshold)

\* C5: the verdict is FAIL exactly when some metric present in both the
\* record and the table is strictly above its threshold.
C5_FailIffSomeMetricAbove ==
    apc = "done" =>
        /\ analysed.ok /\ analysed.v.t = "analysis"
        /\ analysed.v.overall_score \in {"PASS", "FAIL"}
        /\ analysed.v.overall_score = "FAIL" <=> \E i \in DOMAIN table : ViolatedAt(i)

C5_Witness ==
    /\ apc = "done" /\ analysed.ok /\ analysed.v.t = "analysis"
    /\ analysed.v.overall_score = "FAIL"
    /\ \E i \in DOMAIN table :
          /\ table[i].metric \in DOMAIN record.d
          /\ ~RatGreater(record.d[table[i].metric], table[i].threshold)
          /\ ~RatGreater(table[i].threshold, record.d[table[i].metric])
    /\ \E i \in DOMAIN table : table[i].metric \notin DOMAIN record.d

MappedFour ==
    {"first_contentful_paint", "largest_contentful_paint",
     "cumulative_layout_shift", "time_to_interactive"}

\* the table's violated metrics, in table order
ViolatedMetrics ==
    LET idx == {i \in DOMAIN table : ViolatedAt(i)}
        RECURSIVE Walk(_)
        Walk(i) == IF i > Len(table) THEN << >>
                   ELSE (IF i \in idx THEN <<table[i].metric>> ELSE << >>)
                        \o Walk(i + 1)
    IN  Walk(1)

\* C9: one issue per violated metric and one recommendation per violated
\* metric among the four mapped ones, both in table order; a violation of
\* any other metric (speed_index, total_blocking_time) adds an issue only.
C9_IssuesAndRecommendationsInOrder ==
    apc = "done" =>
        LET mapped(m) == m \in MappedFour
            adv == SelectSeq(ViolatedMetrics, mapped)
        IN  /\ analysed.ok /\ analysed.v.t = "analysis"
            /\ [i \in DOMAIN analysed.v.issues |-> analysed.v.issues[i].metric]
                 = ViolatedMetrics
            /\ analysed.v.recommendations
                 = [i \in DOMAIN adv |-> RECOMMENDATION_MAP[adv[i]]]

C9_Witness ==
    /\ apc = "done" /\ analysed.ok /\ analysed.v.t = "analysis"
    /\ Len(analysed.v.issues) = 2
    /\ analysed.v.issues[1].metric \in {"speed_index", "total_blocking_time"}
    /\ analysed.v.issues[2].metric \in MappedFour
    /\ Len(analysed.v.recommendations) = 1

---------------------------------------------------------------------------
(* Claims about one run of the monitor (Spec) *)

\* C1: test_page_speed_async lets no exception out: whenever a task's GET
\* has ended, the fetcher returned; it returned the decoded body if the
\* answer was a decodable body, and a mapping with an "error" entry if not.
C1_FetcherNeverRaises ==
    \A s \in StrategySet :
        t_answer[s].kind # "none" =>
            /\ t_fetched[s].ok
            /\ t_answer[s].kind = "json" => t_fetched[s].v = t_answer[s].body
            /\ t_answer[s].kind # "json" => IsErrorMapping(t_fetched[s].v)

\* the pipeline of strategy s gave no record: it raised or returned None
PipelineFailed(s) ==
    \/ t_pc[s] = "raised"
    \/ t_pc[s] = "done" /\ t_result[s].v.t = "none"

PipelineSucceeded(s) == t_pc[s] = "done" /\ t_result[s].v.t = "pair"

InCsv(metrics) ==
    /\ csv_file.exists
    /\ \E i \in DOMAIN csv_file.lines :
          i > 1 /\ csv_file.lines[i] = CsvRow(KeysInOrder(metrics), metrics)

InReport(analysis) ==
    \E i \in DOMAIN reported :
        reported[i].report = GeneratePerformanceReport(analysis)

\* C2: when a run with a key has ended (the file system having refused
\* nothing) and a pipeline failed, both pipelines ran to their end, and the
\* record of a sibling that succeeded is in the CSV and in the final report.
C2_PipelinesIsolated ==
    ( /\ m_pc = "ended" /\ Truthy(api_key)
      /\ m_end.v # PyExc("OSError")
      /\ \E s \in StrategySet : PipelineFailed(s) ) =>
        /\ \A s \in StrategySet : t_pc[s] \in {"done", "raised"}
        /\ \A s \in StrategySet :
              PipelineSucceeded(s) =>
                  /\ InCsv(t_result[s].v.metrics)
                  /\ InReport(t_result[s].v.analysis)

\* neither the environment nor the config file supplies a key
NoKeyAvailable ==
    /\ ~Truthy(env_key)
    /\ ~ ( /\ config_file.kind = "json" /\ config_file.body.t = "dict"
           /\ "api_key" \in DOMAIN config_file.body.d
           /\ Truthy(config_file.body.d["api_key"]) )

\* C6: without a key the run stops at the check after load_api_key: no GET
\* is issued, the CSV file is as the run found it, and async_main returns
\* normally instead of ending with an exception.
C6_NoKeyAbortsCleanly ==
    NoKeyAvailable =>
        /\ \A s \in StrategySet : http_sent[s] = 0
        /\ csv_file = csv_before
        /\ m_pc \in {"start", "ended"}
        /\ m_pc = "ended" => m_end = Returned

\* C7: the CSV file is atomic-or-absent: it holds what the run found, or the
\* complete new content; and a failed write reaches the caller as an
\* exception with the old content in place.
C7_CsvAtomicOrAbsent ==
    /\ \/ csv_file = csv_before
       \/ /\ valid_results # << >>
          /\ csv_file = FileWith(CsvLines(AllMetrics(valid_results)))
    /\ m_end.v = PyExc("OSError") => (m_end.how = "uncaught" /\ csv_file = csv_before)

VerdictMatches(score, nissues) ==
    /\ score \in {"PASS", "FAIL"}
    /\ score = "FAIL" <=> nissues > 0
    /\ score = "PASS" <=> nissues = 0

\* C8: wherever an analysis is used (the summary run_strategy_test prints,
\* the pair it returns, async_main's valid_results, the final report) its
\* verdict is FAIL exactly when it lists an issue, PASS exactly when none.
C8_VerdictMatchesIssues ==
    /\ \A s \in StrategySet :
          /\ t_printed[s].t = "summary" =>
                VerdictMatches(t_printed[s].score, t_printed[s].issues_count)
          /\ t_result[s].v.t = "pair" =>
                VerdictMatches(t_result[s].v.analysis.overall_score,
                               Len(t_result[s].v.analysis.issues))
    /\ \A i \in DOMAIN valid_results :
          VerdictMatches(valid_results[i].analysis.overall_score,
                         Len(valid_results[i].analysis.issues))
    /\ \A i \in DOMAIN reported :
          ~reported[i].report.error =>
              VerdictMatches(reported[i].report.score, Len(reported[i].report.issues))

C8_Witness ==
    /\ m_pc = "ended" /\ m_end = Returned
    /\ Len(reported) = 2
    /\ reported[1].report.score = "FAIL" /\ Len(reported[1].report.issues) = 1
    /\ reported[1].report.recommendations = << >>
    /\ reported[2].report.score = "PASS" /\ reported[2].report.issues = << >>
    /\ t_printed["mobile"].t = "summary" /\ t_printed["mobile"].score = "FAIL"

---------------------------------------------------------------------------
(* Claims about the CSV writer (SpecSave) *)

\* the line breaks of a text: "\r\n" is one break, a lone "\r" or "\n" too
RECURSIVE LineBreaks(_)
LineBreaks(text) ==
    IF text = << >> THEN 0
    ELSE IF Len(text) >= 2 /\ text[1] = CR /\ text[2] = LF
         THEN 1 + LineBreaks(SubSeq(text, 3, Len(text)))
    ELSE (IF text[1] \in {CR, LF} THEN 1 ELSE 0) + LineBreaks(Tail(text))

EndsWithBreak(text) == text # << >> /\ text[Len(text)] \in {CR, LF}

\* the lines of a text, as a text editor or wc -l counts them
LineCount(text) ==
    LineBreaks(text) + (IF text = << >> \/ EndsWithBreak(text) THEN 0 ELSE 1)

\* the row a CSV reader gives when a record ends
RecordAtEnd(row, field, mode) ==
    IF mode = "start"
    THEN (IF row = << >> THEN << >> ELSE Append(row, << >>))
    ELSE Append(row, field)

\* A CSV reader of the excel dialect: the rows of a text, each a sequence of
\* field texts.  mode is where the reader stands: at the start of a field,
\* in a plain field, in a quoted field, after a quote met in a quoted field,
\* or after the "\r" that ended a record.
RECURSIVE ReadCsv(_, _, _, _, _, _)
ReadCsv(text, i, rows, row, field, mode) ==
    IF i > Len(text)
    THEN IF mode = "eol" \/ (mode = "start" /\ row = << >>) THEN rows
         ELSE Append(rows, RecordAtEnd(row, field, mode))
    ELSE
    LET c == text[i]
    IN  CASE mode = "eol" ->
               IF c = LF THEN ReadCsv(text, i + 1, rows, << >>, << >>, "start")
               ELSE ReadCsv(text, i, rows, << >>, << >>, "start")
          [] mode = "quoted" ->
               IF c = Quote THEN ReadCsv(text, i + 1, rows, row, field, "qq")
               ELSE ReadCsv(text, i + 1, rows, row, Append(field, c), "quoted")
          [] mode = "qq" /\ c = Quote ->
               ReadCsv(text, i + 1, rows, row, Append(field, Quote), "quoted")
          [] OTHER ->
               CASE c = Comma ->
                      ReadCsv(text, i + 1, rows, Append(row, field), << >>, "start")
                 [] c \in {CR, LF} ->
                      ReadCsv(text, i + 1,
                              Append(rows, RecordAtEnd(row, field, mode)),
                              << >>, << >>, IF c = CR THEN "eol" ELSE "start")
                 [] c = Quote /\ mode = "start" ->
                      ReadCsv(text, i + 1, rows, row, << >>, "quoted")
                 [] OTHER ->
                      ReadCsv(text, i + 1, rows, row, Append(field, c), "field")

ParseCsv(text) == ReadCsv(text, 1, << >>, << >>, << >>, "start")

\* what a field's value reads as: a string as itself, a number as its
\* digits, None as the empty text
FieldText(v) ==
    CASE v.t = "none" -> << >>
      [] v.t = "str"  -> CharsOf(v.s)
      [] v.t = "num"  -> <<NumText(v)>>

\* the header (the first record's keys, in its key order), then one row per
\* record in list order, the fields in the header's columns
ExpectedRows(metrics) ==
    LET keys == KeysInOrder(metrics[1])
    IN  <<[j \in DOMAIN keys |-> <<keys[j]>>]>>
          \o [i \in DOMAIN metrics |->
                [j \in DOMAIN keys |-> FieldText(metrics[i].d[keys[j]])]]

UniformlyShaped(metrics) ==
    \A i \in DOMAIN metrics : DOMAIN metrics[i].d = DOMAIN metrics[1].d

\* save_metrics_to_csv has written a non-empty, uniformly-shaped list
SavedUniform ==
    /\ save_pc = "done" /\ save_out.ok
    /\ save_metrics # << >> /\ UniformlyShaped(save_metrics)

RECURSIVE SumOver(_, _)
SumOver(f, dom) ==
    IF dom = {} THEN 0
    ELSE LET x == CHOOSE y \in dom : TRUE IN f[x] + SumOver(f, dom \ {x})

\* the line breaks inside the field values of the records
BreaksInFields(metrics) ==
    SumOver([i \in DOMAIN metrics |->
               SumOver([k \in DOMAIN metrics[i].d |->
                          LineBreaks(FieldText(metrics[i].d[k]))],
                       DOMAIN metrics[i].d)],
            DOMAIN metrics)

\* C11 as stated: after save_metrics_to_csv has written a non-empty list of
\* N uniformly-shaped records, the file holds exactly N+1 lines, and read as
\* CSV they are the header (the first record's keys in key order) and one
\* row per record in list order, the values in the header's columns.
C11_ExactlyNPlusOneLines ==
    SavedUniform =>
        /\ save_file.exists
        /\ LineCount(FileText(save_file)) = Len(save_metrics) + 1
        /\ ParseCsv(FileText(save_file)) = ExpectedRows(save_metrics)

\* C11 amended: the file holds exactly N+1 CSV rows, the header and one row
\* per record in list order, every value read back in its column (None as
\* the empty text); a line break inside a value stays inside its quoted
\* field, so the file holds N+1 lines plus one per such break, N+1 exactly
\* when no value holds a line break.
C11_NPlusOneRows ==
    SavedUniform =>
        /\ save_file.exists
        /\ Len(ParseCsv(FileText(save_file))) = Len(save_metrics) + 1
        /\ ParseCsv(FileText(save_file)) = ExpectedRows(save_metrics)
        /\ LineCount(FileText(save_file))
              = Len(save_metrics) + 1 + BreaksInFields(save_metrics)

C11_Witness ==
    /\ SavedUniform
    /\ Len(save_metrics) = 2
    /\ save_before = OldCsv
    /\ DOMAIN save_metrics[1].d = {"url", "strategy"}
    /\ save_metrics[1].d["url"] = PyStr("a\nb")
    /\ save_metrics[1].d["strategy"] = PyStr("a\"b")
    /\ save_metrics[2].d["url"] = PyStr("a,b")
    /\ save_metrics[2].d["strategy"] = PyNone
    /\ LineCount(FileText(save_file)) = 4

\* C12: save_metrics_to_csv called with an empty list returns and leaves
\* the file as it was, absent or with its content; and in a run where both
\* strategies give no record the output file is the one the run found.
C12_EmptyListLeavesFile ==
    /\ (save_pc = "done" /\ save_metrics = << >>) =>
          (save_out = Ret(PyNone) /\ save_file = save_before)
    /\ (\A s \in StrategySet : PipelineFailed(s)) => csv_file = csv_before

C12_Witness ==
    /\ save_pc = "done" /\ save_metrics = << >>
    /\ save_before = OldCsv /\ save_file = OldCsv

\* a run that ended with both strategies giving no record
C12_RunWitness ==
    /\ m_pc = "ended" /\ m_end = Returned
    /\ \A s \in StrategySet : PipelineFailed(s)
    /\ csv_before = OldCsv /\ csv_file = OldCsv

---------------------------------------------------------------------------
(* Claims about the settings script (SpecCloudflare) *)

\* C3: with ZONE_ID and API_TOKEN configured no step ends in an uncaught
\* exception, whatever the API answers: each returns True or False, and the
\* script ends by returning or by sys.exit.
C3_NoStepCrashes ==
    (cf_zone /\ cf_token) =>
        /\ cf_end.how # "uncaught"
        /\ cf_pc # "crashed"

=============================================================================
